---- MODULE Spec2Model ----
(***************************************************************************)
(* Model of the voice-agent backend: the AsyncQueue hand-off queue, the    *)
(* SentenceDetector, and the per-call session (trigger policy, barge-in,   *)
(* turn pipeline, TTS worker, booking tool path).                          *)
(*                                                                         *)
(* Twelve specifications share the module:                                 *)
(*   SpecQueue    - one AsyncQueue driven by arbitrary push/next/close/    *)
(*                  clear calls (src/utils/async-queue.js)                 *)
(*   SpecDetector - one SentenceDetector fed arbitrary chunks              *)
(*                  (src/services/deepgram.js:548-649)                     *)
(*   Spec         - one call session (src/server.js)                       *)
(*   SpecTurn     - the first turn of a call: one pipeline, its worker,    *)
(*                  its tool path and its barge-in (src/server.js)         *)
(*   FairSpecTurn - the first turn of a call, with collaborators that      *)
(*                  always answer (src/server.js)                          *)
(*   SpecTrigger  - the call session restricted to the trigger policy:     *)
(*                  the LLM streams yield no text (src/server.js)          *)
(*   SpecShort    - SpecTrigger with transcripts of a short utterance      *)
(*                  (src/server.js)                                        *)
(*   SpecPause    - the first turn of a call, with the clock advancing     *)
(*                  and white space in the LLM stream (src/server.js)      *)
(*   SpecHangup   - the first turn of a call that the client ends          *)
(*                  (src/server.js)                                        *)
(*   SpecRegistry - the connections of the server, the session registry    *)
(*                  and its idle sweep (src/server.js)                     *)
(*   SpecCall     - the registry with repeated and failing call-start      *)
(*                  events and the recognition connections they create     *)
(*                  (src/server.js, src/services/deepgram.js:1-175)        *)
(*   SpecWebhook  - one sendBooking call of the WebhookService             *)
(*                  (src/unnamed/part_001)                                 *)
(***************************************************************************)
EXTENDS Integers, Sequences, FiniteSets, TLC

VARIABLES
    aq,         \* SpecQueue: the AsyncQueue under test
    ops,        \* SpecQueue: history of the calls made on aq
    det,        \* SpecDetector: the SentenceDetector under test
    now,        \* SpecDetector: the clock read by Date.now(), in ms
    dIn,        \* SpecDetector: the chunks passed to addChunk, in order
    dRet,       \* SpecDetector: the value returned by each addChunk call
    dRem,       \* SpecDetector: the values returned by getRemainder calls
    callPc,             \* Spec: position of the call-start handler
    conversationHistory,\* Spec: session.conversationHistory
    transcriptBuffer,   \* Spec: trigger state of the onTranscript closure
    isProcessing,
    aiSpeaking,
    currentPipeline,    \* 0 stands for null
    lastProcessedText,
    pipes,              \* Spec: every handleUserMessage call of the session
    greetingAudio,      \* Spec: audio-response events of the greeting
    callEvents,         \* Spec: the status, ai-response and error events
                        \*       emitted while the call starts
    bargeInEvents,      \* Spec: number of barge-in events emitted
    inputEvents,        \* Spec: number of transcript signals delivered
                        \*       and of chunks yielded by the LLM
    faults,             \* Spec: number of failures of the collaborators
    wh,                 \* SpecWebhook: the WebhookService and its one
                        \*       sendBooking call
    reg                 \* SpecRegistry: the clock, activeSessions and the
                        \*       sockets of the server

qvars == <<aq, ops>>
dvars == <<det, now, dIn, dRet, dRem>>
tvars == <<transcriptBuffer, isProcessing, aiSpeaking, currentPipeline,
           lastProcessedText>>
bvars == <<inputEvents, faults>>
svars == <<callPc, conversationHistory, tvars, pipes, greetingAudio, callEvents,
           bargeInEvents, bvars>>
wvars == <<wh>>
rvars == <<reg>>
vars == <<qvars, dvars, svars, wvars, rvars>>

(***************************************************************************)
(* Bounds                                                                  *)
(***************************************************************************)
MaxOps == 6
MaxChunks == 4
MaxTicks == 2
TickMs == 1500
MaxPipelines == 3
MaxEvents == 4
MaxFaults == 1
MaxSockets == 2
MaxRegTicks == 7
MaxClientEvents == 4

(***************************************************************************)
(* AsyncQueue (src/utils/async-queue.js)                                   *)
(*                                                                         *)
(* queue   : the stored items (this.queue)                                 *)
(* waiting : the suspended next() calls, oldest first (this.waiting); a    *)
(*           resolve function is modelled by the index of its promise      *)
(* closed  : this.closed                                                   *)
(* calls   : the promise returned by the k-th next() call                  *)
(***************************************************************************)
Pending    == [settled |-> FALSE, done |-> FALSE, value |-> <<>>]
EndOfStream == [settled |-> TRUE, done |-> TRUE, value |-> <<>>]
Delivered(item) == [settled |-> TRUE, done |-> FALSE, value |-> <<item>>]

NewAsyncQueue ==
    [queue |-> <<>>, waiting |-> <<>>, closed |-> FALSE, calls |-> <<>>]

\* resolve every waiting promise with {done: true} (the while loops of
\* close() and clear())
ResolveAllWaiting(q) ==
    [k \in 1..Len(q.calls) |->
        IF \E i \in 1..Len(q.waiting) : q.waiting[i] = k
        THEN EndOfStream ELSE q.calls[k]]

\* a push that forgets the closed check
push_ignoreClosed(q, item) ==
    IF Len(q.waiting) > 0
    THEN [q EXCEPT !.waiting = Tail(@),
                   !.calls[Head(q.waiting)] = Delivered(item)]
    ELSE [q EXCEPT !.queue = Append(@, item)]

\* a push that hands the item to the most recent waiter
push_lastWaiter(q, item) ==
    IF q.closed THEN q
    ELSE IF Len(q.waiting) > 0
    THEN [q EXCEPT !.waiting = SubSeq(@, 1, Len(@) - 1),
                   !.calls[q.waiting[Len(q.waiting)]] = Delivered(item)]
    ELSE [q EXCEPT !.queue = Append(@, item)]

push(q, item) ==
    IF q.closed THEN q
    ELSE IF Len(q.waiting) > 0
    THEN [q EXCEPT !.waiting = Tail(@),
                   !.calls[Head(q.waiting)] = Delivered(item)]
    ELSE [q EXCEPT !.queue = Append(@, item)]

\* a next() that tests closed before the stored items
next_closedFirst(q) ==
    IF q.closed
    THEN [q EXCEPT !.calls = Append(@, EndOfStream)]
    ELSE IF Len(q.queue) > 0
    THEN [q EXCEPT !.queue = Tail(@),
                   !.calls = Append(@, Delivered(Head(q.queue)))]
    ELSE [q EXCEPT !.calls = Append(@, Pending),
                   !.waiting = Append(@, Len(q.calls) + 1)]

\* a next() that takes the newest stored item
next_lifo(q) ==
    IF Len(q.queue) > 0
    THEN [q EXCEPT !.queue = SubSeq(@, 1, Len(@) - 1),
                   !.calls = Append(@, Delivered(q.queue[Len(q.queue)]))]
    ELSE IF q.closed
    THEN [q EXCEPT !.calls = Append(@, EndOfStream)]
    ELSE [q EXCEPT !.calls = Append(@, Pending),
                   !.waiting = Append(@, Len(q.calls) + 1)]

next(q) ==
    IF Len(q.queue) > 0
    THEN [q EXCEPT !.queue = Tail(@),
                   !.calls = Append(@, Delivered(Head(q.queue)))]
    ELSE IF q.closed
    THEN [q EXCEPT !.calls = Append(@, EndOfStream)]
    ELSE [q EXCEPT !.calls = Append(@, Pending),
                   !.waiting = Append(@, Len(q.calls) + 1)]

\* a close() that sets the flag and leaves the waiters suspended
close_flagOnly(q) == [q EXCEPT !.closed = TRUE]

\* a close() that resolves only the oldest waiter
close_firstWaiterOnly(q) ==
    IF Len(q.waiting) > 0
    THEN [q EXCEPT !.closed = TRUE,
                   !.calls[Head(q.waiting)] = EndOfStream,
                   !.waiting = Tail(@)]
    ELSE [q EXCEPT !.closed = TRUE]

close(q) ==
    [q EXCEPT !.closed = TRUE,
              !.calls = ResolveAllWaiting(q),
              !.waiting = <<>>]

clear(q) ==
    [q EXCEPT !.queue = <<>>,
              !.calls = ResolveAllWaiting(q),
              !.waiting = <<>>]

(***************************************************************************)
(* SpecQueue: every interleaving of at most MaxOps calls on one queue.     *)
(* The k-th push() call pushes the item k.                                 *)
(***************************************************************************)
NumOps(kind) == Cardinality({i \in 1..Len(ops) : ops[i] = kind})

QInit ==
    /\ aq = NewAsyncQueue
    /\ ops = <<>>

QPush ==
    /\ Len(ops) < MaxOps
    /\ aq' = push(aq, NumOps("push") + 1)
    /\ ops' = Append(ops, "push")
    /\ UNCHANGED <<dvars, svars, wvars, rvars>>

QNext ==
    /\ Len(ops) < MaxOps
    /\ aq' = next(aq)
    /\ ops' = Append(ops, "next")
    /\ UNCHANGED <<dvars, svars, wvars, rvars>>

QClose ==
    /\ Len(ops) < MaxOps
    /\ aq' = close(aq)
    /\ ops' = Append(ops, "close")
    /\ UNCHANGED <<dvars, svars, wvars, rvars>>

QClear ==
    /\ Len(ops) < MaxOps
    /\ aq' = clear(aq)
    /\ ops' = Append(ops, "clear")
    /\ UNCHANGED <<dvars, svars, wvars, rvars>>

QueueNext ==
    \/ QPush
    \/ QNext
    \/ QClose
    \/ QClear


(***************************************************************************)
(* Properties of the AsyncQueue                                            *)
(***************************************************************************)
\* position in ops of the k-th call of the given kind
OpIndex(kind, k) ==
    CHOOSE i \in 1..Len(ops) :
        /\ ops[i] = kind
        /\ Cardinality({j \in 1..i : ops[j] = kind}) = k

ClosedBefore(i) == \E j \in 1..(i - 1) : ops[j] = "close"
ClearedBefore(i) == \E j \in 1..(i - 1) : ops[j] = "clear"
Cleared == ClearedBefore(Len(ops) + 1)

\* the items of the push() calls made while the queue was open, in order
AcceptedItems ==
    LET Acc[i \in 0..Len(ops)] ==
            IF i = 0 THEN <<>>
            ELSE IF ops[i] = "push" /\ ~ClosedBefore(i)
                 THEN Append(Acc[i - 1],
                             Cardinality({j \in 1..i : ops[j] = "push"}))
                 ELSE Acc[i - 1]
    IN Acc[Len(ops)]

\* the items handed out so far, in the order of the next() calls
DeliveredOf(q) ==
    LET Del[k \in 0..Len(q.calls)] ==
            IF k = 0 THEN <<>>
            ELSE IF q.calls[k].settled /\ ~q.calls[k].done
                 THEN Del[k - 1] \o q.calls[k].value
                 ELSE Del[k - 1]
    IN Del[Len(q.calls)]

DeliveredItems == DeliveredOf(aq)

\* C5: under every interleaving of push(), next() and close() calls, the
\* k-th next() call that receives an item receives the k-th pushed item,
\* and the items pushed before close() are exactly the delivered ones
\* followed by the stored ones: none lost, none duplicated, push order.
C5_FifoExactlyOnce ==
    ~Cleared =>
        /\ \A k \in 1..Len(aq.calls) :
              (aq.calls[k].settled /\ ~aq.calls[k].done)
                  => aq.calls[k].value = <<k>>
        /\ \A k \in 1..Len(aq.calls) :
              k <= Len(AcceptedItems) => aq.calls[k] = Delivered(k)
        /\ DeliveredItems \o aq.queue = AcceptedItems

C5_Witness ==
    /\ ~Cleared
    /\ Len(ops) = 6
    /\ ops[1] = "next" /\ ops[2] = "push" /\ ops[3] = "push"
    /\ ops[4] = "push" /\ ops[5] = "next" /\ ops[6] = "next"
    /\ DeliveredItems = <<1, 2, 3>>

\* C6 (as claimed): every next() call issued after close() resolves with
\* end-of-stream, also when stored items have not been consumed.
C6_NextAfterCloseIsEndOfStream ==
    \A k \in 1..Len(aq.calls) :
        ClosedBefore(OpIndex("next", k)) => aq.calls[k] = EndOfStream

\* C6 (amended): a next() call issued after close() never suspends; it
\* takes the oldest stored item while one remains and resolves with
\* end-of-stream once none remains.
C6_NextAfterCloseNeverSuspends ==
    [][(aq.closed /\ ops' = Append(ops, "next")) =>
          /\ aq'.waiting = <<>>
          /\ Len(aq'.calls) = Len(aq.calls) + 1
          /\ IF aq.queue # <<>>
             THEN /\ aq'.calls[Len(aq'.calls)] = Delivered(Head(aq.queue))
                  /\ aq'.queue = Tail(aq.queue)
             ELSE /\ aq'.calls[Len(aq'.calls)] = EndOfStream
                  /\ aq'.queue = <<>>]_qvars

C6_Witness ==
    /\ Len(ops) = 5
    /\ ops[1] = "push" /\ ops[2] = "push" /\ ops[3] = "close"
    /\ ops[4] = "next" /\ ops[5] = "next"
    /\ aq.calls = <<Delivered(1), Delivered(2)>>

\* C7: after close(), push(item) changes nothing (stored items, waiters,
\* closed flag, promises) and the pushed item is never stored or delivered.
C7_PushAfterCloseIsNoOp ==
    /\ [][(aq.closed /\ ops' = Append(ops, "push")) => aq' = aq]_qvars
    /\ [](\A n \in 1..NumOps("push") :
            ClosedBefore(OpIndex("push", n)) =>
                /\ \A k \in 1..Len(aq.calls) : aq.calls[k].value # <<n>>
                /\ \A i \in 1..Len(aq.queue) : aq.queue[i] # n)

C7_Witness ==
    /\ Len(ops) = 4
    /\ ops[1] = "push" /\ ops[2] = "close" /\ ops[3] = "push"
    /\ ops[4] = "next"
    /\ aq.queue = <<>>
    /\ aq.calls = <<Delivered(1)>>

\* C8: close() resolves every suspended next() call with end-of-stream and
\* leaves no waiter; after push(1), push(2) and three next() calls the
\* results are 1, 2 and a suspended call, which close() ends.
C8_CloseResolvesAllWaiters ==
    /\ [][ops' = Append(ops, "close") =>
            /\ aq'.waiting = <<>>
            /\ aq'.closed
            /\ \A i \in 1..Len(aq.waiting) :
                  aq'.calls[aq.waiting[i]] = EndOfStream
            /\ \A k \in 1..Len(aq.calls) :
                  aq.calls[k].settled => aq'.calls[k] = aq.calls[k]]_qvars
    /\ [](ops = <<"push", "push", "next", "next", "next">> =>
            aq.calls = <<Delivered(1), Delivered(2), Pending>>)
    /\ [](ops = <<"push", "push", "next", "next", "next", "close">> =>
            aq.calls = <<Delivered(1), Delivered(2), EndOfStream>>)

C8_Witness ==
    /\ ops = <<"push", "push", "next", "next", "next", "close">>
    /\ aq.calls[3] = EndOfStream
    /\ aq.waiting = <<>>

\* C9: push(item) on an open queue completes in its own step whatever the
\* consumer does: with a suspended next() call the longest-waiting one gets
\* the item and nothing is stored; otherwise the item goes to the tail.
C9_PushNeverWaits ==
    [][(~aq.closed /\ ops' = Append(ops, "push")) =>
          LET item == NumOps("push") + 1 IN
          IF aq.waiting # <<>>
          THEN /\ aq'.calls[Head(aq.waiting)] = Delivered(item)
               /\ aq'.waiting = Tail(aq.waiting)
               /\ aq'.queue = aq.queue
          ELSE /\ aq'.queue = Append(aq.queue, item)
               /\ aq'.calls = aq.calls
               /\ aq'.waiting = <<>>]_qvars

C9_Witness ==
    /\ ops = <<"next", "next", "push", "push", "push", "push">>
    /\ aq.calls = <<Delivered(1), Delivered(2)>>
    /\ aq.queue = <<3, 4>>

(***************************************************************************)
(* Text: a string is a sequence of one-character strings.                  *)
(***************************************************************************)
IsSpace(c) == c = " "

RECURSIVE TrimStart(_)
TrimStart(s) ==
    IF s # <<>> /\ IsSpace(Head(s)) THEN TrimStart(Tail(s)) ELSE s

RECURSIVE TrimEnd(_)
TrimEnd(s) ==
    IF s # <<>> /\ IsSpace(s[Len(s)])
    THEN TrimEnd(SubSeq(s, 1, Len(s) - 1)) ELSE s

\* String.prototype.trim
Trim(s) == TrimEnd(TrimStart(s))

\* String.prototype.substring(from, to) with 0-based offsets
Substring(s, from, to) == SubSeq(s, from + 1, to)

(***************************************************************************)
(* SentenceDetector (src/services/deepgram.js:548-649)                     *)
(***************************************************************************)
minSentenceLength == 10
maxBufferLength == 100
maxWaitTime == 2000

\* /[.!?]+/
IsSentenceEnder(c) == c \in {".", "!", "?"}

NewSentenceDetector(t) == [buffer |-> <<>>, lastFlush |-> t]

\* offset of the first sentence ender at or after offset i, Len(buf) if none
RECURSIVE MatchStart(_, _)
MatchStart(buf, i) ==
    IF i >= Len(buf) THEN Len(buf)
    ELSE IF IsSentenceEnder(buf[i + 1]) THEN i
    ELSE MatchStart(buf, i + 1)

\* offset just after the run of sentence enders that starts at offset i
RECURSIVE MatchEnd(_, _)
MatchEnd(buf, i) ==
    IF i < Len(buf) /\ IsSentenceEnder(buf[i + 1])
    THEN MatchEnd(buf, i + 1) ELSE i

\* the while loop over regex.exec: from is regex.lastIndex
RECURSIVE PunctuationScan(_, _, _, _)
PunctuationScan(buf, from, lastIndex, sentences) ==
    LET start == MatchStart(buf, from) IN
    IF start >= Len(buf)
    THEN [sentences |-> sentences, lastIndex |-> lastIndex]
    ELSE LET endIndex == MatchEnd(buf, start)
             sentence == Trim(Substring(buf, lastIndex, endIndex))
         IN IF Len(sentence) >= minSentenceLength
            THEN PunctuationScan(buf, endIndex, endIndex,
                                 Append(sentences, sentence))
            ELSE PunctuationScan(buf, endIndex, lastIndex, sentences)

\* extractSentences at clock value t: the detector after the call and the
\* sentences returned
extractSentences(d, t) ==
    LET scan == PunctuationScan(d.buffer, 0, 0, <<>>)
        \* failsafe 1: punctuation
        buf1 == IF scan.lastIndex > 0
                THEN Trim(Substring(d.buffer, scan.lastIndex, Len(d.buffer)))
                ELSE d.buffer
        flush1 == IF Len(scan.sentences) > 0 THEN t ELSE d.lastFlush
        \* failsafe 2: buffer too long
        fire2 == /\ Len(buf1) > maxBufferLength
                 /\ Len(Trim(buf1)) >= minSentenceLength
        sent2 == IF fire2 THEN Append(scan.sentences, Trim(buf1))
                 ELSE scan.sentences
        buf2 == IF fire2 THEN <<>> ELSE buf1
        flush2 == IF fire2 THEN t ELSE flush1
        \* failsafe 3: waited too long
        fire3 == /\ t - flush2 > maxWaitTime
                 /\ Len(buf2) >= minSentenceLength
        sent3 == IF fire3 THEN Append(sent2, Trim(buf2)) ELSE sent2
        buf3 == IF fire3 THEN <<>> ELSE buf2
        flush3 == IF fire3 THEN t ELSE flush2
    IN [det |-> [buffer |-> buf3, lastFlush |-> flush3],
        sentences |-> sent3]

addChunk(d, chunk, t) ==
    extractSentences([d EXCEPT !.buffer = d.buffer \o chunk], t)

\* a flush that applies the minimum length of addChunk
getRemainder_minLength(d) ==
    IF Len(Trim(d.buffer)) >= minSentenceLength
    THEN [det |-> [d EXCEPT !.buffer = <<>>], remainder |-> Trim(d.buffer)]
    ELSE [det |-> d, remainder |-> <<>>]

getRemainder(d) ==
    [det |-> [d EXCEPT !.buffer = <<>>], remainder |-> Trim(d.buffer)]

(***************************************************************************)
(* SpecDetector: one detector fed at most MaxChunks chunks, the clock      *)
(* advancing between the calls, then flushed with getRemainder.            *)
(***************************************************************************)
\* "Hi"
ChunkHi ==
    <<"H", "i">>

\* "! "
ChunkBang ==
    <<"!", " ">>

\* "This is a longer test sentence. "
ChunkLong ==
    <<"T", "h", "i", "s", " ", "i", "s", " ", "a", " ",
      "l", "o", "n", "g", "e", "r", " ", "t", "e", "s",
      "t", " ", "s", "e", "n", "t", "e", "n", "c", "e",
      ".", " ">>

\* "Short."
ChunkShort ==
    <<"S", "h", "o", "r", "t", ".">>

\* "All good now. Next "
ChunkTail ==
    <<"A", "l", "l", " ", "g", "o", "o", "d", " ", "n",
      "o", "w", ".", " ", "N", "e", "x", "t", " ">>

\* "up"
ChunkUp ==
    <<"u", "p">>

DetectorChunks ==
    {ChunkHi, ChunkBang, ChunkLong, ChunkShort, ChunkTail, ChunkUp}

DInit ==
    /\ det = NewSentenceDetector(0)
    /\ now = 0
    /\ dIn = <<>>
    /\ dRet = <<>>
    /\ dRem = <<>>

DAddChunk ==
    /\ Len(dIn) < MaxChunks
    /\ dRem = <<>>
    /\ \E chunk \in DetectorChunks :
          LET r == addChunk(det, chunk, now) IN
          /\ det' = r.det
          /\ dIn' = Append(dIn, chunk)
          /\ dRet' = Append(dRet, r.sentences)
    /\ UNCHANGED <<now, dRem>>
    /\ UNCHANGED <<qvars, svars, wvars, rvars>>

DGetRemainder ==
    /\ Len(dRem) < 2
    /\ LET r == getRemainder(det) IN
          /\ det' = r.det
          /\ dRem' = Append(dRem, r.remainder)
    /\ UNCHANGED <<now, dIn, dRet>>
    /\ UNCHANGED <<qvars, svars, wvars, rvars>>

DTick ==
    /\ now < MaxTicks * TickMs
    /\ dRem = <<>>
    /\ now' = now + TickMs
    /\ UNCHANGED <<det, dIn, dRet, dRem>>
    /\ UNCHANGED <<qvars, svars, wvars, rvars>>

DetectorNext ==
    \/ DAddChunk
    \/ DGetRemainder
    \/ DTick


(***************************************************************************)
(* Properties of the SentenceDetector                                      *)
(***************************************************************************)
RECURSIVE Flatten(_)
Flatten(ss) == IF ss = <<>> THEN <<>> ELSE Head(ss) \o Flatten(Tail(ss))

\* the input text S, and every value handed out so far in order
InputText == Flatten(dIn)
OutputTexts == Flatten(dRet) \o dRem

IsPrefix(p, s) == Len(p) <= Len(s) /\ SubSeq(s, 1, Len(p)) = p

\* text is outs[1], outs[2], ... in order, separated by whitespace only
RECURSIVE EqualUpToBoundaryWhitespace(_, _)
EqualUpToBoundaryWhitespace(text, outs) ==
    LET rest == TrimStart(text) IN
    IF outs = <<>> THEN rest = <<>>
    ELSE /\ IsPrefix(Head(outs), rest)
         /\ EqualUpToBoundaryWhitespace(
                Substring(rest, Len(Head(outs)), Len(rest)), Tail(outs))

\* C10: once the detector has been flushed, the sentences returned by the
\* addChunk calls followed by the remainder spell the input text, with
\* whitespace missing only between two returned values.
C10_SegmentationLossless ==
    Len(dRem) >= 1 => EqualUpToBoundaryWhitespace(InputText, OutputTexts)

(***************************************************************************)
(* Call session (src/server.js)                                            *)
(*                                                                         *)
(* One action is one run of the event loop: the handler of the event and   *)
(* every continuation that becomes runnable without further I/O.  The      *)
(* suspension points are the awaits on the LLM stream, on textToSpeech, on *)
(* sendBooking, on deepgram.connect and on an unresolved queue promise.    *)
(***************************************************************************)
\* "hello there"
TextHello ==
    <<"h", "e", "l", "l", "o", " ", "t", "h", "e", "r",
      "e">>

\* "book a demo please."
TextBook ==
    <<"b", "o", "o", "k", " ", "a", " ", "d", "e", "m",
      "o", " ", "p", "l", "e", "a", "s", "e", ".">>

TranscriptTexts == {TextHello, TextBook}

\* "  ok  "
TextOk ==
    <<" ", " ", "o", "k", " ", " ">>

\* confidence in hundredths
Confidences == {60, 70, 83, 92}

\* the data passed to the onTranscript callback (deepgram.js:44-54)
Signals ==
    [text : TranscriptTexts, is_final : BOOLEAN, speech_final : BOOLEAN,
     confidence : Confidences]

\* the signals of a short utterance
ShortSignals ==
    [text : {TextOk}, is_final : BOOLEAN, speech_final : BOOLEAN,
     confidence : {92}]

GreetingText == <<"Hey there! I'm Tessa from Apex Solutions. ...">>
ConfirmationText == <<"All set! I've registered your appointment for ...">>
ErrorMsg == <<"Sorry, I couldn't complete the booking. Please try again.">>

\* the text chunks the language model may yield in this model
SessionChunks == {ChunkLong, ChunkTail}

\* a chunk of ten blanks
ChunkBlank ==
    <<" ", " ", " ", " ", " ", " ", " ", " ", " ", " ">>

startsWith(text, prefix) ==
    Len(prefix) <= Len(text) /\ SubSeq(text, 1, Len(prefix)) = prefix

\* /[.!?]$/.test(text)
EndsWithPunctuation(text) ==
    text # <<>> /\ IsSentenceEnder(text[Len(text)])

\* a trigger policy that waits for the final transcript
shouldTrigger_finalOnly(sig) == sig.is_final

shouldTrigger(sig) ==
    \/ sig.is_final
    \/ (sig.confidence > 85 /\ sig.speech_final)
    \/ (Len(sig.text) > 15 /\ EndsWithPunctuation(sig.text)
            /\ sig.confidence > 80)

\* a barge-in test that lets final transcripts through
isBargeIn_interimOnly(sig) ==
    /\ aiSpeaking
    /\ ~sig.is_final
    /\ Len(Trim(sig.text)) > 5
    /\ ~startsWith(sig.text, lastProcessedText)

\* a barge-in test on the length of the untrimmed text
isBargeIn_untrimmed(sig) ==
    /\ aiSpeaking
    /\ Len(sig.text) > 5
    /\ ~startsWith(sig.text, lastProcessedText)

isBargeIn(sig) ==
    /\ aiSpeaking
    /\ Len(Trim(sig.text)) > 5
    /\ ~startsWith(sig.text, lastProcessedText)

(***************************************************************************)
(* One handleUserMessage call with its pipeline controller and TTS worker  *)
(*   hpc   : where handleUserMessage is suspended                          *)
(*           "llm" (for await on the stream), "joinWorker" (await          *)
(*           ttsWorkerPromise), "webhook", "confirmTTS", "apologyTTS",     *)
(*           "done"; "none" before the call                                *)
(*   wpc   : where startTTSWorker is suspended: "next", "tts", "done"      *)
(*   aborted : the flag of the pipeline controller                         *)
(*   threw : an exception of the LLM stream is pending in the finally      *)
(*   streamed : the visible text the LLM stream has yielded so far         *)
(*   ttsCalls : the sentences the worker has passed to textToSpeech        *)
(*   audio, aiResponses, errors : the events emitted on the socket         *)
(***************************************************************************)
NoPipeline ==
    [hpc |-> "none", wpc |-> "none", aborted |-> FALSE,
     ttsQueue |-> NewAsyncQueue, detector |-> NewSentenceDetector(0),
     fullResponse |-> <<>>, toolCallDetected |-> <<>>, threw |-> FALSE,
     streamed |-> <<>>, wSentence |-> <<>>, ttsCalls |-> <<>>,
     audio |-> <<>>, aiResponses |-> <<>>, errors |-> 0]

Turn(role, content, p) == [role |-> role, content |-> content, pipe |-> p]

\* an audio-response event: who emitted it, for which text, and for a
\* sentence of the worker the next() call that delivered the sentence
Audio(src, text, call) == [src |-> src, text |-> text, call |-> call]

Partial(text) == [text |-> text, complete |-> FALSE]
Complete(text) == [text |-> text, complete |-> TRUE]

\* the worker after its next() promise settled: the loop body up to the
\* textToSpeech call (server.js:516-535)
WorkerResume(pl) ==
    IF pl.wpc # "next" THEN pl
    ELSE LET r == pl.ttsQueue.calls[Len(pl.ttsQueue.calls)] IN
         IF ~r.settled THEN pl
         ELSE IF r.done THEN [pl EXCEPT !.wpc = "done"]
         ELSE IF pl.aborted THEN [pl EXCEPT !.wpc = "done"]
         ELSE IF r.value[1] = <<>> THEN [pl EXCEPT !.wpc = "done"]
         ELSE [pl EXCEPT !.wpc = "tts", !.wSentence = r.value[1],
                         !.ttsCalls = Append(@, r.value[1])]

\* a worker without the try/catch around textToSpeech: a failure ends it
WorkerTTSDone_stopOnFailure(pl, ok) ==
    IF ok
    THEN IF pl.aborted
         THEN [pl EXCEPT !.wpc = "done", !.wSentence = <<>>]
         ELSE WorkerResume([pl EXCEPT !.audio = Append(@,
                                          Audio("worker", pl.wSentence,
                                                Len(pl.ttsQueue.calls))),
                                      !.wSentence = <<>>,
                                      !.ttsQueue = next(@), !.wpc = "next"])
    ELSE [pl EXCEPT !.wpc = "done", !.wSentence = <<>>]

\* the worker after textToSpeech returned (ok) or threw: the rest of the
\* loop body and the next iteration (server.js:535-550)
WorkerTTSDone(pl, ok) ==
    IF ok
    THEN IF pl.aborted
         THEN [pl EXCEPT !.wpc = "done", !.wSentence = <<>>]
         ELSE WorkerResume([pl EXCEPT !.audio = Append(@,
                                          Audio("worker", pl.wSentence,
                                                Len(pl.ttsQueue.calls))),
                                      !.wSentence = <<>>,
                                      !.ttsQueue = next(@), !.wpc = "next"])
    ELSE WorkerResume([pl EXCEPT !.wSentence = <<>>,
                                 !.ttsQueue = next(@), !.wpc = "next"])

\* startTTSWorker up to its first await
startTTSWorker(pl) ==
    WorkerResume([pl EXCEPT !.ttsQueue = next(@), !.wpc = "next"])

\* a catch block that only logs
catchBlock_logOnly(c) == [c EXCEPT !.pl.hpc = "done"]

\* a catch block that takes the last turn back out of the history
catchBlock_rollback(c) ==
    [c EXCEPT !.pl.hpc = "done", !.pl.errors = @ + 1,
              !.hist = SubSeq(@, 1, Len(@) - 1)]

\* the catch block of handleUserMessage (server.js:503-507)
catchBlock(c) == [c EXCEPT !.pl.hpc = "done", !.pl.errors = @ + 1]

\* handleUserMessage after ttsWorkerPromise resolved (server.js:427-507)
AfterJoin(c, p) ==
    LET pl == c.pl IN
    IF pl.threw
    THEN catchBlock(c)
    ELSE IF pl.toolCallDetected # <<>> /\ ~pl.aborted
    THEN IF pl.toolCallDetected[1].argsValid
         THEN [c EXCEPT !.pl.hpc = "webhook"]
         ELSE [c EXCEPT !.pl.hpc = "apologyTTS",
                        !.pl.aiResponses = Append(@, Partial(ErrorMsg))]
    ELSE IF ~pl.aborted
    THEN [c EXCEPT !.pl.hpc = "done",
                   !.pl.aiResponses = Append(@, Complete(pl.fullResponse)),
                   !.hist = Append(@, Turn("assistant", pl.fullResponse, p))]
    ELSE [c EXCEPT !.pl.hpc = "done"]

\* handleUserMessage going on without awaiting ttsWorkerPromise
JoinWorker_noWait(c, p) == AfterJoin(c, p)

\* await ttsWorkerPromise
JoinWorker(c, p) ==
    IF c.pl.wpc = "done" THEN AfterJoin(c, p) ELSE c

\* the pushes of one addChunk result (server.js:387-401)
RECURSIVE PushSentences(_, _)
PushSentences(pl, sentences) ==
    IF sentences = <<>> THEN pl
    ELSE PushSentences(
            [pl EXCEPT !.aiResponses = Append(@, Partial(Head(sentences))),
                       !.ttsQueue = push(@, Head(sentences))],
            Tail(sentences))

\* handleUserMessage after the for-await loop ended, by the end of the
\* stream, by break or by an exception (server.js:406-425)
AfterStream(c, p, threw) ==
    LET pl == c.pl
        r == getRemainder(pl.detector)
        flushed ==
            IF threw THEN pl
            ELSE IF r.remainder # <<>> /\ ~pl.aborted
            THEN [pl EXCEPT !.detector = r.det,
                            !.fullResponse = @ \o r.remainder,
                            !.aiResponses = Append(@, Partial(r.remainder)),
                            !.ttsQueue = push(@, r.remainder)]
            ELSE [pl EXCEPT !.detector = r.det]
        closed == [flushed EXCEPT !.ttsQueue = close(@),
                                  !.hpc = "joinWorker",
                                  !.threw = threw]
    IN JoinWorker([c EXCEPT !.pl = WorkerResume(closed)], p)

\* one text chunk of the stream (server.js:361-404)
OnChunk(c, p, chunk, t) ==
    LET pl == c.pl IN
    IF pl.aborted THEN AfterStream(c, p, FALSE)
    ELSE LET r == addChunk(pl.detector, chunk, t)
             fed == [pl EXCEPT !.fullResponse = @ \o chunk,
                               !.detector = r.det]
         IN [c EXCEPT !.pl = WorkerResume(PushSentences(fed, r.sentences))]

\* a loop body without the continue: the marker chunk goes on as text
OnToolCall_visible(c, p, argsValid) ==
    IF c.pl.aborted THEN AfterStream(c, p, FALSE)
    ELSE [c EXCEPT !.pl.toolCallDetected = <<[argsValid |-> argsValid]>>,
                   !.pl.fullResponse = @ \o <<"{\"__tool_call\": ...}">>]

\* the chunk that carries the __tool_call marker (server.js:369-376)
OnToolCall(c, p, argsValid) ==
    IF c.pl.aborted THEN AfterStream(c, p, FALSE)
    ELSE [c EXCEPT !.pl.toolCallDetected = <<[argsValid |-> argsValid]>>]

\* sendBooking returned (ok) or threw (server.js:437-483)
OnWebhook(c, p, ok) ==
    IF ok
    THEN [c EXCEPT
            !.hist = @ \o <<Turn("assistant", c.pl.fullResponse, p),
                            Turn("tool", <<"success">>, p)>>,
            !.pl.aiResponses = Append(@, Partial(ConfirmationText)),
            !.pl.hpc = "confirmTTS"]
    ELSE [c EXCEPT !.pl.aiResponses = Append(@, Partial(ErrorMsg)),
                   !.pl.hpc = "apologyTTS"]

\* textToSpeech(confirmationResponse) returned or threw (server.js:468-483)
OnConfirmTTS(c, p, ok) ==
    IF ok
    THEN [c EXCEPT !.pl.audio = Append(@, Audio("tool", ConfirmationText, 0)),
                   !.hist = Append(@, Turn("assistant", ConfirmationText, p)),
                   !.pl.hpc = "done"]
    ELSE [c EXCEPT !.pl.aiResponses = Append(@, Partial(ErrorMsg)),
                   !.pl.hpc = "apologyTTS"]

\* textToSpeech(errorMsg) returned or threw (server.js:481-507)
OnApologyTTS(c, p, ok) ==
    IF ok
    THEN [c EXCEPT !.pl.audio = Append(@, Audio("tool", ErrorMsg, 0)),
                   !.pl.hpc = "done"]
    ELSE catchBlock(c)

(***************************************************************************)
(* Actions of the session                                                  *)
(***************************************************************************)
Pipelines == 1..MaxPipelines

NumStarted == Cardinality({p \in Pipelines : pipes[p].hpc # "none"})

Ctx(p) == [pl |-> pipes[p], hist |-> conversationHistory]

\* variant of Commit: the .finally callback releases the lock and the
\* pipeline reference but leaves aiSpeaking set
Commit_keepSpeaking(p, c, failed) ==
    /\ pipes' = [pipes EXCEPT ![p] = c.pl]
    /\ conversationHistory' = c.hist
    /\ IF c.pl.hpc = "done"
       THEN /\ isProcessing' = FALSE
            /\ currentPipeline' = 0
            /\ lastProcessedText' =
                  IF c.pl.aborted THEN lastProcessedText ELSE <<>>
            /\ UNCHANGED <<transcriptBuffer, aiSpeaking>>
       ELSE UNCHANGED tvars
    /\ failed => faults < MaxFaults
    /\ faults' = IF failed THEN faults + 1 ELSE faults
    /\ UNCHANGED <<callPc, greetingAudio, callEvents, bargeInEvents, qvars, dvars, wvars, rvars>>

\* store the result of a step of pipeline p; when handleUserMessage has
\* returned, run the .finally callback of its trigger (server.js:210-220)
Commit(p, c, failed) ==
    /\ pipes' = [pipes EXCEPT ![p] = c.pl]
    /\ conversationHistory' = c.hist
    /\ IF c.pl.hpc = "done"
       THEN /\ isProcessing' = FALSE
            /\ aiSpeaking' = FALSE
            /\ currentPipeline' = 0
            /\ lastProcessedText' =
                  IF c.pl.aborted THEN lastProcessedText ELSE <<>>
            /\ UNCHANGED transcriptBuffer
       ELSE UNCHANGED tvars
    /\ failed => faults < MaxFaults
    /\ faults' = IF failed THEN faults + 1 ELSE faults
    /\ UNCHANGED <<callPc, greetingAudio, callEvents, bargeInEvents, qvars, dvars, wvars, rvars>>

SInit ==
    /\ callPc = "idle"
    /\ conversationHistory = <<>>
    /\ transcriptBuffer = <<>>
    /\ isProcessing = FALSE
    /\ aiSpeaking = FALSE
    /\ currentPipeline = 0
    /\ lastProcessedText = <<>>
    /\ pipes = [p \in Pipelines |-> NoPipeline]
    /\ greetingAudio = <<>>
    /\ callEvents = <<>>
    /\ bargeInEvents = 0
    /\ inputEvents = 0
    /\ faults = 0

\* socket.on('call-start') up to await session.deepgram.connect()
CallStart ==
    /\ callPc = "idle"
    /\ callPc' = "connecting"
    /\ UNCHANGED <<conversationHistory, tvars, pipes, greetingAudio,
                   callEvents, bargeInEvents>>
    /\ UNCHANGED <<bvars, qvars, dvars, wvars, rvars>>

\* connect() resolved: the status event and the greeting, pre-recorded or
\* synthesized (server.js:232-248)
ConnectOk ==
    /\ callPc = "connecting"
    /\ callEvents' = callEvents \o <<"status", "ai-response">>
    /\ conversationHistory' =
          Append(conversationHistory, Turn("assistant", GreetingText, 0))
    /\ \E prerecordedGreeting \in BOOLEAN :
          IF prerecordedGreeting
          THEN /\ greetingAudio' = Append(greetingAudio, GreetingText)
               /\ callPc' = "active"
          ELSE /\ greetingAudio' = greetingAudio
               /\ callPc' = "greetingTTS"
    /\ UNCHANGED <<tvars, pipes, bargeInEvents>>
    /\ UNCHANGED <<bvars, qvars, dvars, wvars, rvars>>

\* the events the failure of connect() makes the server emit: an Error
\* event of the connection runs the handler that calls the error callback
\* of the session (deepgram.js:61-66, server.js:224-228) and then the one
\* that rejects (deepgram.js:88-93); the timeout only rejects
\* (deepgram.js:98-100); the rejection reaches the catch of call-start
\* (server.js:250-253)
connectFailureEvents(cause) ==
    IF cause = "rejected" THEN <<"error", "error">> ELSE <<"error">>

\* connect() rejected: the connection reported an error or did not open
\* within 10 s
ConnectFail ==
    /\ callPc = "connecting"
    /\ callPc' = "failed"
    /\ faults < MaxFaults
    /\ faults' = faults + 1
    /\ \E cause \in {"rejected", "timeout"} :
          callEvents' = callEvents \o connectFailureEvents(cause)
    /\ UNCHANGED <<conversationHistory, tvars, pipes, greetingAudio,
                   bargeInEvents>>
    /\ UNCHANGED <<inputEvents, qvars, dvars, wvars, rvars>>

\* socket.on('call-end') of an established call: the recognition
\* connection is closed and the status event sent (server.js:313-324); the
\* trigger state and the pipeline, which live in the closure of call-start
\* (server.js:122-126), are not touched
CallEnd ==
    /\ callPc = "active"
    /\ callPc' = "ended"
    /\ callEvents' = Append(callEvents, "status")
    /\ UNCHANGED <<conversationHistory, tvars, pipes, greetingAudio,
                   bargeInEvents>>
    /\ UNCHANGED <<bvars, qvars, dvars, wvars, rvars>>

\* textToSpeech(greetingText) returned or threw
GreetingTTSDone ==
    /\ callPc = "greetingTTS"
    /\ callPc' = "active"
    /\ \E ok \in BOOLEAN :
          /\ ~ok => faults < MaxFaults
          /\ faults' = IF ok THEN faults ELSE faults + 1
          /\ greetingAudio' =
                IF ok THEN Append(greetingAudio, GreetingText)
                ELSE greetingAudio
          /\ callEvents' =
                IF ok THEN callEvents ELSE Append(callEvents, "error")
    /\ UNCHANGED <<conversationHistory, tvars, pipes, bargeInEvents>>
    /\ UNCHANGED <<inputEvents, qvars, dvars, wvars, rvars>>

\* the onTranscript callback called with the signal sig
\* (server.js:128-222)
OnTranscript(sig) ==
    /\ callPc \in {"greetingTTS", "active"}
    /\ IF isBargeIn(sig)
       THEN /\ pipes' = IF currentPipeline # 0
                        THEN [pipes EXCEPT ![currentPipeline].aborted = TRUE]
                        ELSE pipes
            /\ currentPipeline' = 0
            /\ bargeInEvents' = bargeInEvents + 1
            /\ aiSpeaking' = FALSE
            /\ isProcessing' = FALSE
            /\ transcriptBuffer' = sig.text
            /\ lastProcessedText' = <<>>
            /\ UNCHANGED conversationHistory
       ELSE LET buffer == IF ~isProcessing THEN sig.text
                          ELSE transcriptBuffer
            IN
            /\ UNCHANGED bargeInEvents
            /\ IF isProcessing \/ sig.text = lastProcessedText
               THEN /\ transcriptBuffer' = buffer
                    /\ UNCHANGED <<isProcessing, aiSpeaking, currentPipeline,
                                   lastProcessedText, pipes,
                                   conversationHistory>>
               ELSE IF shouldTrigger(sig) /\ Len(Trim(buffer)) > 0
               THEN /\ NumStarted < MaxPipelines
                    /\ isProcessing' = TRUE
                    /\ lastProcessedText' = sig.text
                    /\ transcriptBuffer' = <<>>
                    /\ currentPipeline' = NumStarted + 1
                    /\ aiSpeaking' = TRUE
                    /\ conversationHistory' =
                          Append(conversationHistory,
                                 Turn("user", buffer, NumStarted + 1))
                    /\ pipes' = [pipes EXCEPT ![NumStarted + 1] =
                          startTTSWorker(
                              [NoPipeline EXCEPT
                                  !.hpc = "llm",
                                  !.detector = NewSentenceDetector(now)])]
               ELSE /\ transcriptBuffer' = buffer
                    /\ UNCHANGED <<isProcessing, aiSpeaking, currentPipeline,
                                   lastProcessedText, pipes,
                                   conversationHistory>>
    /\ inputEvents < MaxEvents
    /\ inputEvents' = inputEvents + 1
    /\ UNCHANGED <<callPc, greetingAudio, callEvents>>
    /\ UNCHANGED <<faults, qvars, dvars, wvars, rvars>>

\* Deepgram delivers a transcript signal
Transcript == \E sig \in Signals : OnTranscript(sig)

\* Deepgram delivers the transcript of a short utterance
ShortTranscript == \E sig \in ShortSignals : OnTranscript(sig)

\* the LLM stream yields a text chunk
LLMChunk ==
    \E p \in Pipelines, chunk \in SessionChunks :
        /\ pipes[p].hpc = "llm"
        /\ inputEvents < MaxEvents
        /\ pipes[p].toolCallDetected = <<>>
        /\ inputEvents' = inputEvents + 1
        /\ Commit(p, OnChunk([Ctx(p) EXCEPT !.pl.streamed = @ \o chunk],
                             p, chunk, now), FALSE)

\* the LLM stream yields a chunk of white space
LLMBlankChunk ==
    \E p \in Pipelines :
        /\ pipes[p].hpc = "llm"
        /\ inputEvents < MaxEvents
        /\ pipes[p].toolCallDetected = <<>>
        /\ inputEvents' = inputEvents + 1
        /\ Commit(p, OnChunk([Ctx(p) EXCEPT !.pl.streamed = @ \o ChunkBlank],
                             p, ChunkBlank, now), FALSE)

\* the LLM stream yields the tool-call marker as its last chunk
LLMToolCall ==
    \E p \in Pipelines, argsValid \in BOOLEAN :
        /\ pipes[p].hpc = "llm"
        /\ pipes[p].toolCallDetected = <<>>
        /\ inputEvents < MaxEvents
        /\ inputEvents' = inputEvents + 1
        /\ Commit(p, OnToolCall(Ctx(p), p, argsValid), ~argsValid)

\* the LLM stream ends
LLMEnd ==
    \E p \in Pipelines :
        /\ pipes[p].hpc = "llm"
        /\ UNCHANGED inputEvents
        /\ Commit(p, AfterStream(Ctx(p), p, FALSE), FALSE)

\* the LLM stream throws
LLMFail ==
    \E p \in Pipelines :
        /\ pipes[p].hpc = "llm"
        /\ UNCHANGED inputEvents
        /\ Commit(p, AfterStream(Ctx(p), p, TRUE), TRUE)

\* the textToSpeech call of the worker returns or throws
WorkerTTSReturn ==
    \E p \in Pipelines, ok \in BOOLEAN :
        /\ pipes[p].wpc = "tts"
        /\ UNCHANGED inputEvents
        /\ Commit(p, JoinWorker(
               [Ctx(p) EXCEPT !.pl = WorkerTTSDone(pipes[p], ok)], p), ~ok)

\* sendBooking returns or throws
WebhookReturn ==
    \E p \in Pipelines, ok \in BOOLEAN :
        /\ pipes[p].hpc = "webhook"
        /\ UNCHANGED inputEvents
        /\ Commit(p, OnWebhook(Ctx(p), p, ok), ~ok)

\* the textToSpeech call of the confirmation returns or throws
ConfirmTTSReturn ==
    \E p \in Pipelines, ok \in BOOLEAN :
        /\ pipes[p].hpc = "confirmTTS"
        /\ UNCHANGED inputEvents
        /\ Commit(p, OnConfirmTTS(Ctx(p), p, ok), ~ok)

\* the textToSpeech call of the apology returns or throws
ApologyTTSReturn ==
    \E p \in Pipelines, ok \in BOOLEAN :
        /\ pipes[p].hpc = "apologyTTS"
        /\ UNCHANGED inputEvents
        /\ Commit(p, OnApologyTTS(Ctx(p), p, ok), ~ok)

Next ==
    \/ CallStart
    \/ ConnectOk
    \/ ConnectFail
    \/ GreetingTTSDone
    \/ Transcript
    \/ LLMChunk
    \/ LLMToolCall
    \/ LLMEnd
    \/ LLMFail
    \/ WorkerTTSReturn
    \/ WebhookReturn
    \/ ConfirmTTSReturn
    \/ ApologyTTSReturn

(***************************************************************************)
(* WebhookService (src/unnamed/part_001)                                   *)
(*                                                                         *)
(* wh.pc : "none" before the constructor, "idle" before sendBooking,       *)
(*         "post" while axios.post is awaited, "backoff" while the 1 s     *)
(*         timer before a retry is awaited, "returned", "threw"            *)
(* wh.webhookUrl : whether N8N_WEBHOOK_URL was set                         *)
(* wh.retries : the retries parameter of the running sendBooking call      *)
(* wh.posts : the outcome of every axios.post call made so far             *)
(* wh.message : the message of the Error thrown by sendBooking             *)
(***************************************************************************)
DefaultRetries == 2

Statuses == {200, 201, 400, 404, 500}
TransportCodes == {"ECONNABORTED", "ECONNRESET"}

\* what one axios.post call can meet: a response with a status, or no
\* response (status 0) with the code of the transport error
PostOutcomes ==
    [status : Statuses, code : {"none"}]
        \cup [status : {0}, code : TransportCodes]

NewWebhookService ==
    [pc |-> "none", webhookUrl |-> FALSE, retries |-> 0, posts |-> <<>>,
     message |-> ""]

\* validateStatus of the request options (part_001:31)
validateStatus(status) == status >= 200 /\ status < 500

NoError == [thrown |-> FALSE, response |-> FALSE, code |-> "none"]

\* the error that reaches the catch block for one outcome of axios.post:
\* the rejection of axios (no response, or a response refused by
\* validateStatus), or the Error thrown at part_001:35
CaughtError(outcome) ==
    IF outcome.status = 0
    THEN [thrown |-> TRUE, response |-> FALSE, code |-> outcome.code]
    ELSE IF ~validateStatus(outcome.status)
    THEN [thrown |-> TRUE, response |-> TRUE, code |-> "ERR_BAD_RESPONSE"]
    ELSE IF outcome.status >= 400
    THEN [thrown |-> TRUE, response |-> FALSE, code |-> "none"]
    ELSE NoError

\* the version of the service without retries (src/services/webhook.js)
shouldRetry_never(error, retries) == FALSE

\* the test of the catch block (part_001:43)
shouldRetry(error, retries) ==
    retries > 0 /\ (~error.response \/ error.code = "ECONNABORTED")

WInit == wh = NewWebhookService

\* new WebhookService()
WNew ==
    /\ wh.pc = "none"
    /\ \E configured \in BOOLEAN :
          wh' = [wh EXCEPT !.pc = "idle", !.webhookUrl = configured]
    /\ UNCHANGED <<qvars, dvars, svars, rvars>>

\* sendBooking(bookingData) up to its first await
WSendBooking ==
    /\ wh.pc = "idle"
    /\ wh' = IF ~wh.webhookUrl
             THEN [wh EXCEPT !.pc = "threw",
                             !.message = "Webhook URL not configured"]
             ELSE [wh EXCEPT !.pc = "post", !.retries = DefaultRetries]
    /\ UNCHANGED <<qvars, dvars, svars, rvars>>

\* axios.post settles: the rest of the try block and the catch block up to
\* the return, the throw or the await of the timer
WPostSettles ==
    /\ wh.pc = "post"
    /\ \E outcome \in PostOutcomes :
          LET error == CaughtError(outcome)
              posted == [wh EXCEPT !.posts = Append(@, outcome)]
          IN wh' = IF ~error.thrown
                   THEN [posted EXCEPT !.pc = "returned"]
                   ELSE IF shouldRetry(error, wh.retries)
                   THEN [posted EXCEPT !.pc = "backoff"]
                   ELSE [posted EXCEPT
                            !.pc = "threw",
                            !.message = "Failed to register booking"]
    /\ UNCHANGED <<qvars, dvars, svars, rvars>>

\* the timer fires: this.sendBooking(bookingData, retries - 1) up to its
\* first await
WRetry ==
    /\ wh.pc = "backoff"
    /\ wh' = [wh EXCEPT !.pc = "post", !.retries = @ - 1]
    /\ UNCHANGED <<qvars, dvars, svars, rvars>>

WebhookNext ==
    \/ WNew
    \/ WSendBooking
    \/ WPostSettles
    \/ WRetry

(***************************************************************************)
(* Connections and session registry (src/server.js:86-110, 312-335,        *)
(* 557-576)                                                                *)
(*                                                                         *)
(* reg.clock : Date.now()                                                  *)
(* reg.nextSweep : the time at which the interval timer fires next        *)
(* reg.registered[id] : activeSessions.has(id)                             *)
(* reg.session[id] : the session object of the connection handler of id,   *)
(*                   which its handlers keep after a delete                *)
(* reg.socket[id] : the socket: "none" before the connection, "open",      *)
(*                  "closed"; whether its handlers are installed; the      *)
(*                  error events emitted on it                             *)
(* reg.events : the connections, events and disconnections of the clients *)
(***************************************************************************)
\* 5 * 60 * 1000
SweepIntervalMs == 300000

\* 30 * 60 * 1000
IdleThresholdMs == 1800000

\* the clock advances by one timer interval at a time
RegTickMs == SweepIntervalMs

\* Date.now() when the server starts
ServerStartMs == 1000

Sockets == 1..MaxSockets

\* connection is the state of the recognition connection behind the handle
\* session.deepgram; orphansConnecting and orphansOpen count the connections
\* of DeepgramService objects that call-start replaced in session.deepgram
\* without disconnecting them (server.js:119)
NoSession ==
    [created |-> FALSE, isCallActive |-> FALSE, lastActivity |-> 0,
     deepgram |-> FALSE, audioChunkCount |-> 0, connection |-> "none",
     orphansConnecting |-> 0, orphansOpen |-> 0]

NewSession(t) ==
    [created |-> TRUE, isCallActive |-> FALSE, lastActivity |-> t,
     deepgram |-> FALSE, audioChunkCount |-> 0, connection |-> "none",
     orphansConnecting |-> 0, orphansOpen |-> 0]

\* errors counts the 'Failed to initialize session' events sent to the
\* client (server.js:108), callErrors the 'Failed to start call' events
\* (server.js:252)
NoSocket ==
    [state |-> "none", handlers |-> FALSE, errors |-> 0, callErrors |-> 0]

RInit ==
    reg = [clock |-> ServerStartMs,
           nextSweep |-> ServerStartMs + SweepIntervalMs,
           registered |-> [id \in Sockets |-> FALSE],
           session |-> [id \in Sockets |-> NoSession],
           socket |-> [id \in Sockets |-> NoSocket],
           events |-> 0]

\* a connection handler that goes on after the failed initialisation
onConnection_noReturn(r, id, llmKey, cartesiaKey) ==
    IF llmKey /\ cartesiaKey
    THEN [r EXCEPT !.events = @ + 1,
                   !.session[id] = NewSession(r.clock),
                   !.registered[id] = TRUE,
                   !.socket[id].state = "open",
                   !.socket[id].handlers = TRUE]
    ELSE [r EXCEPT !.events = @ + 1,
                   !.socket[id].state = "open",
                   !.socket[id].errors = @ + 1,
                   !.socket[id].handlers = TRUE]

\* io.on('connection'): the constructors of LLMService and CartesiaService
\* throw when their API key is not set (server.js:87-110)
onConnection(r, id, llmKey, cartesiaKey) ==
    IF llmKey /\ cartesiaKey
    THEN [r EXCEPT !.events = @ + 1,
                   !.session[id] = NewSession(r.clock),
                   !.registered[id] = TRUE,
                   !.socket[id].state = "open",
                   !.socket[id].handlers = TRUE]
    ELSE [r EXCEPT !.events = @ + 1,
                   !.socket[id].state = "open",
                   !.socket[id].errors = @ + 1]

\* a sweep test that does not look at isCallActive
isStale_ignoreCall(session, t) ==
    session.lastActivity # 0 /\ (t - session.lastActivity) > IdleThresholdMs

\* the test of the idle sweep (server.js:564)
isStale(session, t) ==
    /\ ~session.isCallActive
    /\ session.lastActivity # 0
    /\ (t - session.lastActivity) > IdleThresholdMs

RConnect ==
    \E id \in Sockets, llmKey \in BOOLEAN, cartesiaKey \in BOOLEAN :
        /\ reg.socket[id].state = "none"
        /\ reg.events < MaxClientEvents
        /\ reg' = onConnection(reg, id, llmKey, cartesiaKey)
        /\ UNCHANGED <<qvars, dvars, svars, wvars>>

\* a client emits an event on its open socket or closes it: only an
\* installed handler runs
Delivers(id) ==
    /\ reg.socket[id].state = "open"
    /\ reg.events < MaxClientEvents

\* call-start when DEEPGRAM_API_KEY is not set: the constructor of
\* DeepgramService throws (deepgram.js:4-8) after isCallActive was set
\* (server.js:115) and the catch block reports it (server.js:250-253)
onCallStartNoKey(r, id) ==
    [r EXCEPT !.events = @ + 1,
              !.session[id].isCallActive = TRUE,
              !.socket[id].callErrors = @ + 1]

\* call-start up to await session.deepgram.connect() (server.js:113-230):
\* the new DeepgramService replaces the one in session.deepgram, whose
\* connection nothing closes
onCallStart(r, id) ==
    LET old == r.session[id].connection IN
    [r EXCEPT !.events = @ + 1,
              !.session[id].isCallActive = TRUE,
              !.session[id].deepgram = TRUE,
              !.session[id].connection = "connecting",
              !.session[id].orphansConnecting =
                  IF old = "connecting" THEN @ + 1 ELSE @,
              !.session[id].orphansOpen =
                  IF old = "open" THEN @ + 1 ELSE @]

\* socket.on('call-start') up to its first await (server.js:113-230);
\* dgKey tells whether DEEPGRAM_API_KEY is set
CallStartEvent(id, dgKey) ==
    /\ Delivers(id)
    /\ reg' = IF ~reg.socket[id].handlers
              THEN [reg EXCEPT !.events = @ + 1]
              ELSE IF dgKey THEN onCallStart(reg, id)
              ELSE onCallStartNoKey(reg, id)
    /\ UNCHANGED <<qvars, dvars, svars, wvars>>

\* a client emits call-start at any time
RCallStart ==
    \E id \in Sockets, dgKey \in BOOLEAN : CallStartEvent(id, dgKey)

\* a client emits call-start while its session holds no recognition
\* handle, on a server whose DEEPGRAM_API_KEY is set
RFirstCallStart ==
    \E id \in Sockets :
        /\ ~reg.session[id].deepgram
        /\ CallStartEvent(id, TRUE)

\* the connection behind session.deepgram opens: connect() returns and
\* the call-start handler goes on (server.js:230-248)
RDeepgramOpen ==
    \E id \in Sockets :
        /\ reg.session[id].connection = "connecting"
        /\ reg' = [reg EXCEPT !.session[id].connection = "open"]
        /\ UNCHANGED <<qvars, dvars, svars, wvars>>

\* the connection behind session.deepgram is rejected or times out:
\* connect() throws and the catch block of call-start reports it
\* (deepgram.js:76-122, server.js:250-253)
RDeepgramFail ==
    \E id \in Sockets :
        /\ reg.session[id].connection = "connecting"
        /\ reg' = [reg EXCEPT
                     !.session[id].connection = "failed",
                     !.socket[id].callErrors =
                         IF reg.socket[id].state = "open" THEN @ + 1 ELSE @]
        /\ UNCHANGED <<qvars, dvars, svars, wvars>>

\* the connection of a replaced DeepgramService opens
ROrphanOpen ==
    \E id \in Sockets :
        /\ reg.session[id].orphansConnecting > 0
        /\ reg' = [reg EXCEPT !.session[id].orphansConnecting = @ - 1,
                              !.session[id].orphansOpen = @ + 1]
        /\ UNCHANGED <<qvars, dvars, svars, wvars>>

\* the connection of a replaced DeepgramService is rejected or times out
ROrphanFail ==
    \E id \in Sockets :
        /\ reg.session[id].orphansConnecting > 0
        /\ reg' = [reg EXCEPT
                     !.session[id].orphansConnecting = @ - 1,
                     !.socket[id].callErrors =
                         IF reg.socket[id].state = "open" THEN @ + 1 ELSE @]
        /\ UNCHANGED <<qvars, dvars, svars, wvars>>

\* socket.on('audio-stream') (server.js:261-310)
RAudioStream ==
    \E id \in Sockets :
        /\ Delivers(id)
        /\ reg' = IF reg.socket[id].handlers
                  THEN [reg EXCEPT !.events = @ + 1,
                                   !.session[id].audioChunkCount = @ + 1]
                  ELSE [reg EXCEPT !.events = @ + 1]
        /\ UNCHANGED <<qvars, dvars, svars, wvars>>

\* socket.on('call-end') (server.js:313-324)
RCallEnd ==
    \E id \in Sockets :
        /\ Delivers(id)
        /\ reg' = IF reg.socket[id].handlers
                  THEN [reg EXCEPT !.events = @ + 1,
                                   !.session[id].isCallActive = FALSE,
                                   !.session[id].lastActivity = reg.clock,
                                   !.session[id].deepgram = FALSE,
                                   !.session[id].connection = "none"]
                  ELSE [reg EXCEPT !.events = @ + 1]
        /\ UNCHANGED <<qvars, dvars, svars, wvars>>

\* the client goes away: socket.on('disconnect') (server.js:327-335)
RDisconnect ==
    \E id \in Sockets :
        /\ Delivers(id)
        /\ reg' = IF reg.socket[id].handlers
                  THEN [reg EXCEPT !.events = @ + 1,
                                   !.socket[id].state = "closed",
                                   !.registered[id] = FALSE,
                                   !.session[id].connection =
                                       IF reg.session[id].deepgram
                                       THEN "closed" ELSE @]
                  ELSE [reg EXCEPT !.events = @ + 1,
                                   !.socket[id].state = "closed"]
        /\ UNCHANGED <<qvars, dvars, svars, wvars>>

\* the callback of setInterval (server.js:558-576)
RSweep ==
    /\ reg.clock >= reg.nextSweep
    /\ reg' = [reg EXCEPT
                 !.nextSweep = @ + SweepIntervalMs,
                 !.registered =
                     [id \in Sockets |->
                         reg.registered[id]
                             /\ ~isStale(reg.session[id], reg.clock)]]
    /\ UNCHANGED <<qvars, dvars, svars, wvars>>

\* time passes; a timer that is due fires first
RTick ==
    /\ reg.clock < reg.nextSweep
    /\ reg.clock < ServerStartMs + MaxRegTicks * RegTickMs
    /\ reg' = [reg EXCEPT !.clock = @ + RegTickMs]
    /\ UNCHANGED <<qvars, dvars, svars, wvars>>

RegistryNext ==
    \/ RConnect
    \/ RFirstCallStart
    \/ RAudioStream
    \/ RCallEnd
    \/ RDisconnect
    \/ RSweep
    \/ RTick

\* the registry together with the outcomes of deepgram.connect()
CallNext ==
    \/ RConnect
    \/ RCallStart
    \/ RAudioStream
    \/ RCallEnd
    \/ RDisconnect
    \/ RSweep
    \/ RTick
    \/ RDeepgramOpen
    \/ RDeepgramFail
    \/ ROrphanOpen
    \/ ROrphanFail

(***************************************************************************)
(* Specifications                                                          *)
(***************************************************************************)
Init ==
    /\ QInit
    /\ DInit
    /\ SInit
    /\ WInit
    /\ RInit

SpecQueue == Init /\ [][QueueNext]_vars

SpecDetector == Init /\ [][DetectorNext]_vars

SpecWebhook == Init /\ [][WebhookNext]_vars

\* The registry of a server whose DEEPGRAM_API_KEY is set, with clients
\* that emit call-start only while no call of theirs is set up
SpecRegistry == Init /\ [][RegistryNext]_vars

\* The registry with call-start events at any time, a DEEPGRAM_API_KEY
\* that may be unset and recognition connections that open or fail
SpecCall == Init /\ [][CallNext]_vars

\* The call session with language-model streams that end or fail before
\* they yield a chunk: every order of transcript signals, barge-ins and
\* pipeline completions, without the synthesis of sentences.
TriggerNext ==
    \/ CallStart
    \/ ConnectOk
    \/ ConnectFail
    \/ GreetingTTSDone
    \/ Transcript
    \/ LLMEnd
    \/ LLMFail

SpecTrigger == Init /\ [][TriggerNext]_vars

\* The trigger policy with short utterances among the transcripts.
ShortNext ==
    \/ TriggerNext
    \/ ShortTranscript

SpecShort == Init /\ [][ShortNext]_vars

\* a transcript signal of the first turn of the call: before the first
\* pipeline is started, or while the AI is speaking
TranscriptOfFirstTurn ==
    /\ NumStarted = 0 \/ aiSpeaking
    /\ Transcript

\* The call session up to the end of its first turn.
TurnNext ==
    \/ CallStart
    \/ ConnectOk
    \/ ConnectFail
    \/ GreetingTTSDone
    \/ TranscriptOfFirstTurn
    \/ LLMChunk
    \/ LLMToolCall
    \/ LLMEnd
    \/ LLMFail
    \/ WorkerTTSReturn
    \/ WebhookReturn
    \/ ConfirmTTSReturn
    \/ ApologyTTSReturn

SpecTurn == Init /\ [][TurnNext]_vars

\* Every LLM stream ends and every textToSpeech and sendBooking call
\* returns: each of these is an awaited promise that settles, after which
\* the event loop runs the continuation.
Fairness ==
    /\ WF_vars(LLMEnd)
    /\ WF_vars(WorkerTTSReturn)
    /\ WF_vars(WebhookReturn)
    /\ WF_vars(ConfirmTTSReturn)
    /\ WF_vars(ApologyTTSReturn)

FairSpecTurn == Init /\ [][TurnNext]_vars /\ Fairness

\* The first turn of the call session with the clock advancing between the
\* events, and a language model that also yields white space.
PauseNext ==
    \/ TurnNext
    \/ LLMBlankChunk
    \/ DTick

SpecPause == Init /\ [][PauseNext]_vars

\* The first turn of the call session with a client that ends the call.
HangupNext ==
    \/ TurnNext
    \/ CallEnd

SpecHangup == Init /\ [][HangupNext]_vars

\* The call session.  The clock does not advance in this specification, so
\* the detectors of the pipelines flush on punctuation and length only.
Spec == Init /\ [][Next]_vars

(***************************************************************************)
(* Properties of the call session                                          *)
(***************************************************************************)
\* handleUserMessage has been called and its promise has not completed
Running(p) == pipes[p].hpc \notin {"none", "done"}

\* C1: at most one pipeline whose cancellation flag is unset is running.
C1_AtMostOneLivePipeline ==
    Cardinality({p \in Pipelines : Running(p) /\ ~pipes[p].aborted}) <= 1

\* the textToSpeech calls that have not returned: of the workers, of the
\* confirmation and apology of the tool path, and of the greeting
OutstandingTTS ==
    Cardinality({p \in Pipelines : pipes[p].wpc = "tts"})
    + Cardinality({p \in Pipelines :
                      pipes[p].hpc \in {"confirmTTS", "apologyTTS"}})
    + (IF callPc = "greetingTTS" THEN 1 ELSE 0)

\* C2: at most one textToSpeech request of the session is outstanding.
C2_AtMostOneSynthesis == OutstandingTTS <= 1

\* the turns a pipeline has appended to the history
TurnsOf(hist, p) == SelectSeq(hist, LAMBDA t : t.pipe = p)

\* C3: once the cancellation flag of a pipeline is set, no step adds an
\* audio-response event of that pipeline or a turn of that pipeline to the
\* history.
C3_AbortIntegrity ==
    [][\A p \in Pipelines :
          pipes[p].aborted =>
              /\ pipes'[p].audio = pipes[p].audio
              /\ TurnsOf(conversationHistory', p)
                    = TurnsOf(conversationHistory, p)]_vars

\* the sentences pushed to the queue of a pipeline, in push order
Pushed(p) == DeliveredOf(pipes[p].ttsQueue) \o pipes[p].ttsQueue.queue

WorkerAudio(p) == SelectSeq(pipes[p].audio, LAMBDA a : a.src = "worker")

PartialTexts(p) ==
    LET parts == SelectSeq(pipes[p].aiResponses, LAMBDA r : ~r.complete)
    IN [i \in 1..Len(parts) |-> parts[i].text]

\* C4: the audio-response events of the worker of a pipeline are, in
\* order, the audio of pushed sentences taken in push order: the i-th
\* event is for a later push than the (i-1)-th, and the pushes are in the
\* order of the partial ai-response events.
C4_AudioInPushOrder ==
    \A p \in Pipelines :
        LET wa == WorkerAudio(p) IN
        /\ \A i \in 1..Len(wa) :
              /\ wa[i].call \in 1..Len(Pushed(p))
              /\ wa[i].text = Pushed(p)[wa[i].call]
              /\ i > 1 => wa[i - 1].call < wa[i].call
        /\ Len(Pushed(p)) <= Len(PartialTexts(p))
        /\ Pushed(p) = SubSeq(PartialTexts(p), 1, Len(Pushed(p)))

\* three sentences pushed, the later two while the first was being
\* synthesized, one synthesis failed, two audio events in order
C4_Witness ==
    \E p \in Pipelines :
        /\ Len(Pushed(p)) = 3
        /\ Len(WorkerAudio(p)) = 2
        /\ WorkerAudio(p)[1].call = 1
        /\ WorkerAudio(p)[2].call = 3
        /\ Pushed(p)[1] # Pushed(p)[3]

(***************************************************************************)
(* Minimum-length deferral of the SentenceDetector                         *)
(***************************************************************************)
\* every sentence the addChunk calls have returned so far
ReturnedSentences == Flatten(dRet)

\* C11: no addChunk call returns, as a sentence of its own, a text that
\* ends in sentence punctuation and whose length is below the minimum; and
\* the chunks "Hi", "! ", "This is a longer test sentence. ", "Short."
\* return [], [], ["Hi! This is a longer test sentence."], [].
C11_MinLengthDeferral ==
    /\ \A i \in 1..Len(ReturnedSentences) :
          EndsWithPunctuation(ReturnedSentences[i])
              => Len(Trim(ReturnedSentences[i])) >= minSentenceLength
    /\ dIn = <<ChunkHi, ChunkBang, ChunkLong, ChunkShort>>
          => dRet = <<<<>>, <<>>,
                      <<ChunkHi \o <<"!", " ">>
                          \o SubSeq(ChunkLong, 1, Len(ChunkLong) - 1)>>,
                      <<>>>>

(***************************************************************************)
(* Properties of one pipeline                                              *)
(***************************************************************************)
\* the textToSpeech calls of pipeline p that have not returned
OutstandingTTSOf(p) ==
    (IF pipes[p].wpc = "tts" THEN 1 ELSE 0)
    + (IF pipes[p].hpc \in {"confirmTTS", "apologyTTS"} THEN 1 ELSE 0)

\* C12: a pipeline never has more than one textToSpeech call outstanding,
\* counting the calls of its worker and the confirmation or apology call of
\* its tool path.
C12_SingleSynthesisPerPipeline ==
    \A p \in Pipelines : OutstandingTTSOf(p) <= 1

\* the confirmation is being synthesized in a pipeline whose worker has
\* synthesized a sentence before
C12_Witness ==
    \E p \in Pipelines :
        /\ pipes[p].hpc = "confirmTTS"
        /\ Len(WorkerAudio(p)) >= 1
        /\ pipes[p].wpc = "done"

(***************************************************************************)
(* Properties of the trigger                                               *)
(***************************************************************************)
\* this step starts a pipeline on the given text
StartsPipelineOn(text) ==
    /\ NumStarted' = NumStarted + 1
    /\ pipes'[NumStarted + 1].hpc = "llm"
    /\ currentPipeline' = NumStarted + 1
    /\ conversationHistory' =
          Append(conversationHistory, Turn("user", text, NumStarted + 1))

StartsNoPipeline ==
    /\ NumStarted' = NumStarted
    /\ conversationHistory' = conversationHistory
    /\ \A p \in Pipelines : pipes[p].hpc = "none" => pipes'[p].hpc = "none"

C14_BargeInStep ==
    [][(aiSpeaking /\ inputEvents' # inputEvents) =>
       \A sig \in Signals :
          (/\ Len(Trim(sig.text)) > 5
           /\ ~IsPrefix(lastProcessedText, sig.text)
           /\ OnTranscript(sig))
          => /\ currentPipeline # 0
             /\ pipes'[currentPipeline].aborted
             /\ bargeInEvents' = bargeInEvents + 1
             /\ ~aiSpeaking'
             /\ ~isProcessing'
             /\ transcriptBuffer' = sig.text
             /\ StartsNoPipeline]_vars

\* pipeline 1, started on "hello there", has been aborted by the signal
\* "book a demo please." and nothing else has been started
C14_Witness ==
    /\ bargeInEvents = 1
    /\ pipes[1].aborted
    /\ Running(1)
    /\ NumStarted = 1
    /\ transcriptBuffer = TextBook
    /\ ~aiSpeaking /\ ~isProcessing

\* this step completes pipeline p
Completes(p) == pipes[p].hpc # "done" /\ pipes'[p].hpc = "done"

\* C15: lastProcessedText is cleared only by the completion of a pipeline
\* that was not aborted; the barge-in step and the completion of an
\* aborted pipeline leave it unchanged.
C15_LastProcessedTextClearedOnNormalCompletionOnly ==
    [][/\ (lastProcessedText # <<>> /\ lastProcessedText' = <<>>)
             => \E p \in Pipelines : Completes(p) /\ ~pipes'[p].aborted
       /\ bargeInEvents' # bargeInEvents
             => lastProcessedText' = lastProcessedText
       /\ (\E p \in Pipelines : Completes(p) /\ pipes'[p].aborted)
             => lastProcessedText' = lastProcessedText]_vars

(***************************************************************************)
(* Properties of sendBooking                                               *)
(***************************************************************************)
\* the axios.post calls issued so far, the one in flight included
Attempts == Len(wh.posts) + (IF wh.pc = "post" THEN 1 ELSE 0)

IsTransportFailure(outcome) == outcome.status = 0
IsSuccess(outcome) == outcome.status >= 200 /\ outcome.status < 400
IsRejection(outcome) == outcome.status >= 400 /\ outcome.status < 500

\* C16: sendBooking issues at most 3 POSTs; a transport failure of the
\* first or second POST is followed by one more POST; a successful POST is
\* the last one and sendBooking returns; after three transport failures
\* sendBooking throws.
C16_AtMostThreeAttempts ==
    /\ Attempts <= 3
    /\ \A i \in 1..Len(wh.posts) :
          /\ (IsTransportFailure(wh.posts[i]) /\ i <= 2)
                => (Attempts > i \/ wh.pc = "backoff")
          /\ IsSuccess(wh.posts[i])
                => (i = Len(wh.posts) /\ wh.pc = "returned")
    /\ (Len(wh.posts) = 3 /\ \A i \in 1..3 : IsTransportFailure(wh.posts[i]))
          => (wh.pc = "threw" /\ wh.message = "Failed to register booking")
    /\ wh.pc = "returned" => IsSuccess(wh.posts[Len(wh.posts)])

\* two timeouts, then success on the third POST
C16_Witness ==
    /\ Len(wh.posts) = 3
    /\ wh.posts[1].code = "ECONNABORTED"
    /\ wh.posts[2].code = "ECONNABORTED"
    /\ wh.posts[3].status = 200
    /\ wh.pc = "returned"

\* C17: a POST answered with a 4xx status is the last POST of the
\* sendBooking call, which throws.
C17_NoRetryOnRejection ==
    \A i \in 1..Len(wh.posts) :
        IsRejection(wh.posts[i]) => (i = Len(wh.posts) /\ wh.pc = "threw")

(***************************************************************************)
(* Properties of the committed turns                                       *)
(***************************************************************************)
AssistantTurnsOf(p) ==
    SelectSeq(conversationHistory,
              LAMBDA t : t.pipe = p /\ t.role = "assistant")

CompleteResponses(p) ==
    SelectSeq(pipes[p].aiResponses, LAMBDA r : r.complete)

\* handleUserMessage of p has completed without abort, LLM failure or tool
\* invocation
CompletedNormally(p) ==
    /\ pipes[p].hpc = "done"
    /\ ~pipes[p].aborted
    /\ ~pipes[p].threw
    /\ pipes[p].toolCallDetected = <<>>

\* C18: a pipeline that has completed without abort, LLM failure or tool
\* invocation has appended exactly one assistant turn, whose content is the
\* concatenation of the text chunks the LLM stream yielded, and has emitted
\* one complete ai-response with that text.
C18_CommittedTextIsStreamedText ==
    \A p \in Pipelines :
        CompletedNormally(p) =>
            /\ AssistantTurnsOf(p)
                  = <<Turn("assistant", pipes[p].streamed, p)>>
            /\ CompleteResponses(p) = <<Complete(pipes[p].streamed)>>

ToolTurnsOf(p) ==
    SelectSeq(conversationHistory, LAMBDA t : t.pipe = p /\ t.role = "tool")

\* the tool path of p has run to its end in a pipeline that is not aborted
ToolPathCompleted(p) ==
    /\ pipes[p].hpc = "done"
    /\ pipes[p].toolCallDetected # <<>>
    /\ ~pipes[p].aborted
    /\ ~pipes[p].threw

\* C19: after the book_appointment invocation of a pipeline that is not
\* aborted has been handled, the history holds one tool turn of that
\* pipeline, whether sendBooking succeeded, failed, or the arguments could
\* not be parsed.
C19_ToolTurnOnEveryOutcome ==
    \A p \in Pipelines :
        ToolPathCompleted(p) => Len(ToolTurnsOf(p)) = 1

(***************************************************************************)
(* Failure of the LLM stream                                               *)
(***************************************************************************)
\* C20: from the step in which the LLM stream of a pipeline throws, the
\* queue of the pipeline is closed and no assistant turn of the pipeline is
\* in the history; until handleUserMessage completes it has emitted no
\* error event and waits only for the textToSpeech call of its worker; when
\* it completes it has emitted exactly one error event and the step
\* releases the trigger lock.
C20_StreamFailureEndsTurn ==
    [][\A p \in Pipelines :
          pipes'[p].threw =>
              /\ pipes'[p].ttsQueue.closed
              /\ AssistantTurnsOf(p)' = <<>>
              /\ IF pipes'[p].hpc = "done"
                 THEN pipes'[p].errors = 1
                 ELSE /\ pipes'[p].errors = 0
                      /\ pipes'[p].hpc = "joinWorker"
                      /\ pipes'[p].wpc = "tts"
              /\ Completes(p) => (~isProcessing' /\ ~aiSpeaking')]_vars

\* the stream failed after a sentence had been pushed; the worker
\* synthesized it and handleUserMessage has completed with one error event
C20_Witness ==
    \E p \in Pipelines :
        /\ pipes[p].threw
        /\ pipes[p].hpc = "done"
        /\ pipes[p].errors = 1
        /\ Len(WorkerAudio(p)) = 1
        /\ ~isProcessing

(***************************************************************************)
(* Errors and failures of the collaborators                                *)
(***************************************************************************)
\* C21: once the cancellation flag of a pipeline is set, no step adds an
\* error event of that pipeline, whatever its LLM stream and its
\* textToSpeech calls do.
C21_NoErrorEventAfterAbort ==
    [][\A p \in Pipelines :
          pipes[p].aborted => pipes'[p].errors = pipes[p].errors]_vars

FirstTurn == 1

\* C23: when the LLM stream ends and every textToSpeech and sendBooking
\* call returns, the pipeline of a turn, once started, completes; the
\* worker is never suspended on next() of a closed queue; and the step
\* that completes a pipeline leaves isProcessing and aiSpeaking false.
C23_EveryPipelineCompletes ==
    /\ Running(FirstTurn) ~> (pipes[FirstTurn].hpc = "done")
    /\ [](\A p \in Pipelines :
             pipes[p].wpc = "next" => ~pipes[p].ttsQueue.closed)
    /\ [][\A p \in Pipelines :
             Completes(p) => (~isProcessing' /\ ~aiSpeaking')]_vars

\* a pipeline has completed through the tool path after its worker had
\* synthesized a sentence, and the trigger flags are released
C23_Witness ==
    /\ pipes[1].hpc = "done"
    /\ pipes[1].toolCallDetected # <<>>
    /\ Len(WorkerAudio(1)) >= 1
    /\ Len(pipes[1].audio) > Len(WorkerAudio(1))
    /\ ~isProcessing /\ ~aiSpeaking

\* the timer callback ran in this step
Sweeps == reg'.nextSweep # reg.nextSweep

\* the disconnect handler of id ran in this step
Disconnects(id) ==
    /\ reg.socket[id].handlers
    /\ reg.socket[id].state = "open"
    /\ reg'.socket[id].state = "closed"

\* C24: the idle sweep removes a registered session exactly when the
\* session has no active call and its lastActivity lies more than 30
\* minutes back, so a session with an active call is never removed by the
\* sweep; the disconnect of a socket removes its session whatever its
\* state, and nothing else removes a session.
C24_SweepRemovesExactlyIdleSessions ==
    [][\A id \in Sockets :
          /\ (Sweeps /\ reg.registered[id]) =>
                (~reg'.registered[id] <=>
                    (~reg.session[id].isCallActive
                        /\ reg.clock - reg.session[id].lastActivity
                              > 30 * 60 * 1000))
          /\ Disconnects(id) => ~reg'.registered[id]
          /\ (reg.registered[id] /\ ~reg'.registered[id]) =>
                (Sweeps \/ Disconnects(id))]_vars

\* one session was swept while its socket is still open, and the other,
\* idle for longer but in a call, is still registered
C24_Witness ==
    /\ reg.socket[1].state = "open"
    /\ reg.socket[1].handlers
    /\ ~reg.registered[1]
    /\ ~reg.session[1].isCallActive
    /\ reg.registered[2]
    /\ reg.session[2].isCallActive
    /\ reg.clock - reg.session[2].lastActivity > 30 * 60 * 1000
    /\ reg.session[2].lastActivity <= reg.session[1].lastActivity

\* the initialisation of the session of id failed
InitFailed(id) == reg.socket[id].state # "none" /\ ~reg.session[id].created

\* C25: when the construction of a service fails while the session is
\* initialised, the client gets exactly one error event, the session is
\* never registered and no handler is installed for call-start,
\* audio-stream, call-end or disconnect: no later event on the socket
\* changes anything but the socket itself.
C25_FailedInitInstallsNothing ==
    /\ \A id \in Sockets :
          InitFailed(id) =>
              /\ reg.socket[id].errors = 1
              /\ ~reg.registered[id]
              /\ ~reg.socket[id].handlers
              /\ reg.session[id] = NoSession
    /\ \A id \in Sockets :
          ~InitFailed(id) => reg.socket[id].errors = 0

\* the only socket there was failed to initialise, delivered two events
\* and was closed
C25_Witness ==
    \E id \in Sockets :
        /\ InitFailed(id)
        /\ \A other \in Sockets \ {id} : reg.socket[other].state = "none"
        /\ reg.events = 4
        /\ reg.socket[id].state = "closed"
        /\ reg.socket[id].errors = 1

\* the events of callEvents named name
EventsNamed(name) ==
    Len(SelectSeq(callEvents, LAMBDA e : e = name))

\* C26: when the recognition connection is rejected or does not open
\* within 10 s, call-start is aborted with exactly one error event, without
\* a 'Connected' status, without the ai-response and the audio-response of
\* the greeting, and without a greeting turn in the history.
C26_ConnectFailureAbortsCallStart ==
    callPc = "failed" =>
        /\ EventsNamed("error") = 1
        /\ EventsNamed("status") = 0
        /\ EventsNamed("ai-response") = 0
        /\ greetingAudio = <<>>
        /\ conversationHistory = <<>>

\* the LLM stream of p yielded a book_appointment invocation whose
\* arguments parse
ResolvedInvocation(p) ==
    /\ pipes[p].toolCallDetected # <<>>
    /\ pipes[p].toolCallDetected[1].argsValid

\* C27: a pipeline whose LLM stream yielded a resolved book_appointment
\* invocation runs the booking instead of the ordinary commit: the history
\* gets no assistant turn of that pipeline whose content is the streamed
\* text, and no ai-response with the complete flag is emitted for it.
C27_ToolPathReplacesCommit ==
    \A p \in Pipelines :
        ResolvedInvocation(p) =>
            /\ CompleteResponses(p) = <<>>
            /\ \A i \in 1..Len(AssistantTurnsOf(p)) :
                  \/ AssistantTurnsOf(p)[i].content = <<>>
                  \/ AssistantTurnsOf(p)[i].content # pipes[p].streamed

\* the closing utterances of the tool path of p: the confirmation and
\* apology texts among its ai-response events
ClosingTexts(p) ==
    SelectSeq(PartialTexts(p),
              LAMBDA t : t \in {ConfirmationText, ErrorMsg})

\* the texts of the audio-response events of the tool path of p
ToolAudioTexts(p) ==
    LET a == SelectSeq(pipes[p].audio, LAMBDA e : e.src = "tool")
    IN [i \in 1..Len(a) |-> a[i].text]

\* sendBooking of p returned without throwing
BookingAccepted(p) == ToolTurnsOf(p) # <<>>

\* C28: a tool path that has run to its end has emitted exactly one closing
\* utterance: the confirmation text if and only if sendBooking succeeded,
\* the apology text if and only if it failed, each with no audio but its
\* own; no apology is emitted for an accepted booking, also when the
\* synthesis of the confirmation fails.
C28_OneClosingUtterance ==
    \A p \in Pipelines :
        (ToolPathCompleted(p) /\ ResolvedInvocation(p)) =>
            /\ ClosingTexts(p) =
                  IF BookingAccepted(p) THEN <<ConfirmationText>>
                  ELSE <<ErrorMsg>>
            /\ IsPrefix(ToolAudioTexts(p), ClosingTexts(p))

\* C29: in a pipeline that is not aborted the worker calls textToSpeech
\* once for every sentence pushed to the queue, in push order, the
\* sentences queued at close() included, and it ends only when the queue is
\* closed and every pushed sentence was taken: no sentence makes it stop
\* early.
C29_WorkerDrainsEverySentence ==
    \A p \in Pipelines :
        ~pipes[p].aborted =>
            /\ IsPrefix(pipes[p].ttsCalls, Pushed(p))
            /\ pipes[p].wpc = "done" =>
                  /\ pipes[p].ttsQueue.closed
                  /\ pipes[p].ttsCalls = Pushed(p)

\* C30: once the cancellation flag of a pipeline is set, no step adds an
\* ai-response event of that pipeline, partial or complete, pushes a
\* sentence to its queue or sends the remainder of its detector to the
\* client, and the chunk that arrives after the abort is not added to the
\* response.
C30_NoOutputAfterAbort ==
    [][\A p \in Pipelines :
          pipes[p].aborted =>
              /\ pipes'[p].aiResponses = pipes[p].aiResponses
              /\ pipes'[p].fullResponse = pipes[p].fullResponse
              /\ Len(DeliveredOf(pipes'[p].ttsQueue))
                    + Len(pipes'[p].ttsQueue.queue) <= Len(Pushed(p))]_vars

C32_ReturnedSentencesMeetMinimum ==
    \A i \in 1..Len(ReturnedSentences) :
        /\ ReturnedSentences[i] # <<>>
        /\ Len(Trim(ReturnedSentences[i])) >= minSentenceLength

\* C33: getRemainder returns the trimmed text left in the buffer whatever
\* its length and empties the buffer, so that after the chunk "Short." it
\* returns "Short."; a getRemainder call made directly after another
\* returns the empty string.
C33_RemainderFlushesOnce ==
    /\ []((dIn = <<ChunkShort>> /\ dRem # <<>>) => dRem[1] = ChunkShort)
    /\ [][dRem' # dRem =>
             /\ dRem' = Append(dRem, Trim(det.buffer))
             /\ det'.buffer = <<>>
             /\ dRem # <<>> => dRem'[Len(dRem')] = <<>>]_vars

\* "Short." was fed and getRemainder was called twice
C33_Witness ==
    /\ dIn = <<ChunkShort>>
    /\ dRem = <<ChunkShort, <<>>>>
    /\ det.buffer = <<>>

\* the text chunk pipeline p receives in this step
ReceivesChunk(p) == pipes'[p].streamed # pipes[p].streamed

ReceivedChunk(p) ==
    SubSeq(pipes'[p].streamed, Len(pipes[p].streamed) + 1,
           Len(pipes'[p].streamed))

\* the marker chunk of a tool invocation is taken in this step
TakesToolCall(p) ==
    pipes[p].toolCallDetected = <<>> /\ pipes'[p].toolCallDetected # <<>>

\* the marker chunk is no visible text
ToolCallInvisible(p) ==
    TakesToolCall(p) =>
        /\ pipes'[p].fullResponse = pipes[p].fullResponse
        /\ pipes'[p].detector = pipes[p].detector
        /\ pipes'[p].aiResponses = pipes[p].aiResponses
        /\ pipes'[p].ttsQueue = pipes[p].ttsQueue

\* the text chunk is appended to the response and fed to the detector
ChunkVisible(p) ==
    /\ pipes'[p].fullResponse = pipes[p].fullResponse \o ReceivedChunk(p)
    /\ pipes'[p].detector =
          addChunk(pipes[p].detector, ReceivedChunk(p), now).det

\* C34: the chunk that encodes a tool invocation is not appended to the
\* accumulated response, not fed to the detector, not emitted as an
\* ai-response and not pushed to the queue; every other chunk the loop body
\* handles, which is every chunk that arrives while the cancellation flag
\* of the pipeline is unset, is appended to the accumulated response and
\* fed to the detector.
C34_ToolChunkInvisible ==
    [][\A p \in Pipelines :
          /\ ToolCallInvisible(p)
          /\ (ReceivesChunk(p) /\ ~pipes[p].aborted) => ChunkVisible(p)]_vars

\* pipeline 1 received "This is a longer test sentence. " and then the
\* marker chunk; its stream has not ended
C34_Witness ==
    /\ pipes[1].hpc = "llm"
    /\ pipes[1].toolCallDetected # <<>>
    /\ pipes[1].streamed = ChunkLong
    /\ pipes[1].fullResponse = ChunkLong
    /\ ~pipes[1].aborted

\* the user turns of pipeline p in the history
UserTurnsOf(p) ==
    SelectSeq(conversationHistory, LAMBDA t : t.pipe = p /\ t.role = "user")

\* C35: the history only grows: every step leaves the turns it holds in
\* place and unchanged, also the barge-in and the failure of an LLM stream;
\* every started pipeline has appended exactly one user turn, as the first
\* of its turns, and that turn is still there when the pipeline is aborted.
C35_HistoryAppendOnly ==
    /\ [][IsPrefix(conversationHistory, conversationHistory')]_vars
    /\ [](\A p \in Pipelines :
             pipes[p].hpc # "none" =>
                 /\ Len(UserTurnsOf(p)) = 1
                 /\ TurnsOf(conversationHistory, p)[1].role = "user")

\* pipeline 1 was aborted by a barge-in and has ended, its stream having
\* failed; pipeline 2 was started: the history holds the greeting and the
\* user turns of both
C35_Witness ==
    /\ pipes[1].aborted
    /\ pipes[1].hpc = "done"
    /\ pipes[1].errors = 1
    /\ Running(2)
    /\ Len(conversationHistory) = 3
    /\ conversationHistory[2].role = "user"
    /\ conversationHistory[2].pipe = 1
    /\ conversationHistory[3].role = "user"
    /\ conversationHistory[3].pipe = 2

\* C36: while a pipeline whose cancellation flag is unset is running,
\* isProcessing and aiSpeaking are true and currentPipeline is that
\* pipeline, also after a pipeline aborted by an earlier barge-in has
\* completed.
C36_LivePipelineOwnsTriggerState ==
    \A p \in Pipelines :
        (Running(p) /\ ~pipes[p].aborted) =>
            /\ isProcessing
            /\ aiSpeaking
            /\ currentPipeline = p

\* C37: between any two handler steps the three trigger flags agree:
\* isProcessing holds exactly when aiSpeaking holds, exactly when
\* currentPipeline is set, and a set currentPipeline never names a
\* pipeline whose cancellation flag is set.
C37_TriggerFlagsAgree ==
    /\ isProcessing <=> aiSpeaking
    /\ aiSpeaking <=> (currentPipeline # 0)
    /\ currentPipeline # 0 => ~pipes[currentPipeline].aborted

\* a barge-in aborted pipeline 1 and the next signal started pipeline 2
C37_Witness ==
    /\ bargeInEvents = 1
    /\ pipes[1].aborted
    /\ Running(1)
    /\ currentPipeline = 2
    /\ isProcessing
    /\ aiSpeaking
    /\ ~pipes[2].aborted

\* the recognition connections that the call-start handlers of socket id
\* opened and nothing has closed; the transcript callback of each one
\* holds trigger state of its own (server.js:122-128)
OpenConnections(id) ==
    (IF reg.session[id].connection = "open" THEN 1 ELSE 0)
        + reg.session[id].orphansOpen

\* C38: a session holds at most one open recognition connection, with one
\* trigger state, at any time: a call-start received while the session
\* has a recognition connection leaves no earlier connection open.
C38_OneRecognitionConnection ==
    \A id \in Sockets : OpenConnections(id) <= 1

\* C40: when a call-start fails (DEEPGRAM_API_KEY not set, connection
\* rejected or timed out), the session is left not call-active and without
\* a recognition handle, so that its audio is not forwarded and the idle
\* sweep can reclaim it.
C40_FailedCallStartReleasesSession ==
    [][\A id \in Sockets :
          reg'.socket[id].callErrors > reg.socket[id].callErrors =>
              /\ ~reg'.session[id].isCallActive
              /\ ~reg'.session[id].deepgram]_vars

\* C39: after call-end no further audio-response or ai-response event is
\* emitted and no further turn is appended to the history until a new
\* call-start: the pipeline in flight is cancelled and no signal starts a
\* new one.
C39_SilentAfterCallEnd ==
    [][callPc = "ended" =>
          /\ conversationHistory' = conversationHistory
          /\ \A p \in Pipelines :
                /\ pipes'[p].audio = pipes[p].audio
                /\ pipes'[p].aiResponses = pipes[p].aiResponses
                /\ pipes[p].hpc = "none" => pipes'[p].hpc = "none"]_vars

=============================================================================
